---- MODULE Spec2Model ----
(***************************************************************************)
(* Model of the Lemmy -> Telegram RSS bot (src/main.py).                   *)
(*                                                                         *)
(* Character strings whose contents the code inspects (markup text, link   *)
(* targets) are sequences of one-character strings.  Entry identifiers     *)
(* (guids) are integers standing for distinct strings.                     *)
(***************************************************************************)
EXTENDS Integers, Sequences, FiniteSets, TLC

\* ------------------------------------------------------------------ bounds

\* main.py:124  self.state["visited"][-500:]
Cap == 500

\* Number of Scraper method calls in a behaviour of SpecApi.
MaxOps == 2

\* Number of process runs (main: load, one tick) in a behaviour of Spec.
MaxTicks == 2

\* Length of the long entry list ("recording 600 distinct identifiers").
ManyIds == 600

\* Largest number of children of a tag, and of top-level anchors, in the
\* generated documents of SpecMinify.
MaxKids == 2

\* ------------------------------------------------------------------ helpers

Range(s) == {s[i] : i \in 1..Len(s)}

Max(a, b) == IF a >= b THEN a ELSE b

Min(a, b) == IF a <= b THEN a ELSE b

\* Python's None.
None == "None"

\* Python slice s[start:] for a negative start: the index is clamped at 0.
PySliceFromNeg(s, n) == SubSeq(s, Max(0, Len(s) - n) + 1, Len(s))

\* Python slice s[:n].
PySliceTo(s, n) == SubSeq(s, 1, Min(Len(s), n))

\* list.remove(x): deletes the first occurrence of x (x must occur in s).
ListRemove(s, x) ==
    LET k == CHOOSE i \in 1..Len(s) : s[i] = x /\ \A j \in 1..(i - 1) : s[j] # x
    IN  SubSeq(s, 1, k - 1) \o SubSeq(s, k + 1, Len(s))

\* Whether identifier g occurs in s.
Holds(s, g) == \E k \in 1..Len(s) : s[k] = g

\* Whether no element occurs twice in s.
Unique(s) == \A i, j \in 1..Len(s) : s[i] = s[j] => i = j

\* Number of occurrences of x in s.
Count(s, x) == Cardinality({i \in 1..Len(s) : s[i] = x})

\* ------------------------------------------------------------------ entries

\* A list of n entries with pairwise distinct identifiers that occur in no
\* catalogue feed and no initial store; their descriptions are empty.
Distinct(n) == [i \in 1..n |-> [guid |-> 2000 + i, description |-> <<>>]]

\* n identifiers of entries published long ago (not in any feed).
Filler(n) == [i \in 1..n |-> 1000 + i]

Guids(posts) == [i \in 1..Len(posts) |-> posts[i].guid]

\* ------------------------------------------------------------------ Scraper

\* Scraper.filter_posts
filter_posts(visited_, posts_) ==
    SelectSeq(posts_, LAMBDA post : post.guid \notin Range(visited_))

\* Faulty record_posts: the slice is left out.
record_posts_no_truncate(visited_, posts_) == visited_ \o Guids(posts_)

\* Faulty record_posts: [:500] in place of [-500:].
record_posts_keep_oldest(visited_, posts_) ==
    PySliceTo(visited_ \o Guids(posts_), Cap)

\* Scraper.record_posts: the new value of state["visited"]
record_posts(visited_, posts_) ==
    PySliceFromNeg(visited_ \o Guids(posts_), Cap)

\* Faulty refuse: every occurrence of the identifier is deleted.
refuse_remove_all(visited_, post) ==
    SelectSeq(visited_, LAMBDA g : g # post.guid)

\* Scraper.refuse: the new value of state["visited"]
refuse(visited_, post) ==
    IF post.guid \in Range(visited_)
    THEN ListRemove(visited_, post.guid)
    ELSE visited_

\* ------------------------------------------------------------------ markup
\* A parsed document (BeautifulSoup tree) is the sequence of its top-level
\* nodes.  A node is a text node (NavigableString) or a tag with an optional
\* href attribute and a sequence of children.

Text(s) == [name |-> "#text", href |-> None, text |-> s, kids |-> <<>>]

Tag(name, href, kids) == [name |-> name, href |-> href, text |-> <<>>, kids |-> kids]

IsText(n) == n.name = "#text"

\* Characters str.strip() removes.
Whitespace == {" ", "\n", "\t", "\r"}

\* str.strip()
strip(s) ==
    LET keep == {i \in 1..Len(s) : s[i] \notin Whitespace}
    IN  IF keep = {} THEN <<>>
        ELSE SubSeq(s, CHOOSE i \in keep : \A j \in keep : i <= j,
                       CHOOSE i \in keep : \A j \in keep : i >= j)

\* PageElement.text: the concatenation of all strings below the node.
RECURSIVE get_text(_)
get_text(n) ==
    IF IsText(n) THEN n.text
    ELSE LET RECURSIVE cat(_)
             cat(k) == IF k = 0 THEN <<>> ELSE cat(k - 1) \o get_text(n.kids[k])
         IN  cat(Len(n.kids))

\* len(str(node)): a tag is written <name href="...">children</name>, a br as
\* <br/>; the texts of the catalogue hold no character that is escaped.
RECURSIVE NodeLen(_)
NodeLen(n) ==
    IF IsText(n) THEN Len(n.text)
    ELSE IF n.name = "br" THEN 5
    ELSE LET RECURSIVE sum(_)
             sum(k) == IF k = 0 THEN 0 ELSE sum(k - 1) + NodeLen(n.kids[k])
         IN  (2 * Len(n.name)) + 5
             + (IF n.href = None THEN 0 ELSE Len(n.href) + 8)
             + sum(Len(n.kids))

\* len(str(soup))
DocLen(doc) ==
    LET RECURSIVE sum(_)
        sum(k) == IF k = 0 THEN 0 ELSE sum(k - 1) + NodeLen(doc[k])
    IN  sum(Len(doc))

\* The preserved vocabulary (main.py:81).
Vocabulary == {"a", "b", "strong", "i", "em"}

\* What a node becomes when child[0] of an li without children is read.
IndexError == [name |-> "#IndexError", href |-> None, text |-> <<>>, kids |-> <<>>]

\* The loop body without its branch for the preserved vocabulary (faulty).
RewriteTagNoVocabulary(tag) ==
    LET child == tag.kids
    IN  IF tag.name = "br" THEN Text(<<"\n">>)
        ELSE IF tag.name = "p" THEN Text(<<"\n">> \o strip(get_text(tag)))
        ELSE IF tag.name = "li" THEN
            IF child = <<>> THEN IndexError
            ELSE Text(strip(get_text(tag)) \o strip(get_text(child[1])))
        ELSE IF child = <<>> THEN Text(strip(get_text(tag)))
        ELSE IF Len(child) = 1 THEN child[1]
        ELSE tag

\* One visit of the loop body (main.py:74-86) to a tag whose descendants the
\* pass has already visited: what stands in the tag's place afterwards.
RewriteTag(tag) ==
    LET child == tag.kids
    IN  IF tag.name = "br" THEN Text(<<"\n">>)
        ELSE IF tag.name = "p" THEN Text(<<"\n">> \o strip(get_text(tag)))
        ELSE IF tag.name = "li" THEN
            IF child = <<>> THEN IndexError
            ELSE Text(strip(get_text(tag)) \o strip(get_text(child[1])))
        ELSE IF tag.name \in Vocabulary THEN tag
        ELSE IF child = <<>> THEN Text(strip(get_text(tag)))
        ELSE IF Len(child) = 1 THEN child[1]
        ELSE tag

\* The effect on one subtree of `for tag in soup.find_all(True)[::-1]`: reverse
\* document order visits every descendant of a tag before the tag, and a
\* visit replaces the tag by exactly one node, so the pass is a bottom-up
\* rewrite.  An exception raised at any tag ends the pass.
RECURSIVE VisitNode(_)
VisitNode(n) ==
    IF IsText(n) THEN n
    ELSE LET kids == [i \in 1..Len(n.kids) |-> VisitNode(n.kids[i])]
         IN  IF \E i \in 1..Len(kids) : kids[i] = IndexError
             THEN IndexError
             ELSE RewriteTag([n EXCEPT !.kids = kids])

\* One pass over the whole soup; <<IndexError>> when the pass raised.
Pass(doc) ==
    LET out == [i \in 1..Len(doc) |-> VisitNode(doc[i])]
    IN  IF \E i \in 1..Len(out) : out[i] = IndexError
        THEN <<IndexError>>
        ELSE out

\* The loop of html_minify (main.py:71-88) with n iterations left.
RECURSIVE MinifyLoop(_, _)
MinifyLoop(doc, n) ==
    IF n = 0 THEN doc
    ELSE LET next == Pass(doc)
         IN  IF next = <<IndexError>> THEN next
             ELSE IF DocLen(next) = DocLen(doc) THEN next
             ELSE MinifyLoop(next, n - 1)

\* html_minify applied to the document that parsing the (pre-minified) input
\* gives; the iteration cap len(html_doc) is taken as the length of that
\* document's serialisation.  The result is the tree that is serialised, or
\* <<IndexError>> when the call raises.
html_minify(doc) == MinifyLoop(doc, DocLen(doc))

\* BeautifulSoup(str(soup)): serialising and parsing again keeps every tag and
\* joins neighbouring strings; an empty string leaves no node.
RECURSIVE Reparse(_)
Reparse(doc) ==
    IF doc = <<>> THEN <<>>
    ELSE LET head == doc[1]
             rest == Reparse(Tail(doc))
         IN  IF IsText(head) THEN
                 IF head.text = <<>> THEN rest
                 ELSE IF rest # <<>> /\ IsText(rest[1])
                      THEN <<Text(head.text \o rest[1].text)>> \o Tail(rest)
                      ELSE <<head>> \o rest
             ELSE <<[head EXCEPT !.kids = Reparse(head.kids)]>> \o rest

\* soup.find_all(name): the tags of that name in document order.
RECURSIVE find_all_in(_, _)
find_all_in(n, name) ==
    IF IsText(n) THEN <<>>
    ELSE LET RECURSIVE cat(_)
             cat(k) == IF k = 0 THEN <<>>
                       ELSE cat(k - 1) \o find_all_in(n.kids[k], name)
         IN  (IF n.name = name THEN <<n>> ELSE <<>>) \o cat(Len(n.kids))

find_all(doc, name) ==
    LET RECURSIVE cat(_)
        cat(k) == IF k = 0 THEN <<>> ELSE cat(k - 1) \o find_all_in(doc[k], name)
    IN  cat(Len(doc))

EndsWith(s, suf) ==
    Len(s) >= Len(suf) /\ SubSeq(s, Len(s) - Len(suf) + 1, Len(s)) = suf

Contains(s, sub) ==
    \E i \in 1..(Len(s) - Len(sub) + 1) : SubSeq(s, i, i + Len(sub) - 1) = sub

ImageExtensions ==
    { <<".", "j", "p", "g">>, <<".", "j", "p", "e", "g">>, <<".", "p", "n", "g">>,
      <<".", "g", "i", "f">>, <<".", "w", "e", "b", "p">> }

\* re.search(r"\.(jpg|jpeg|png|gif|webp)$", href): $ matches at the end of the
\* string and before a newline that ends the string.
ExtensionMatch(href) ==
    \E ext \in ImageExtensions :
        EndsWith(href, ext) \/ EndsWith(href, ext \o <<"\n">>)

\* Scraper.find_image on the parsed description.
find_image(doc) ==
    LET anchors == find_all(doc, "a")
        hits == {i \in 1..Len(anchors) :
                    /\ anchors[i].href # None
                    /\ \/ ExtensionMatch(anchors[i].href)
                       \/ Contains(anchors[i].href, <<"i", "m", "g", "u", "r">>)}
    IN  IF hits = {} THEN None
        ELSE anchors[CHOOSE i \in hits : \A j \in hits : i <= j].href

\* ------------------------------------------------------------------ state

VARIABLES
    file,        \* contents of scraper.json: the persisted list "visited"
    visited,     \* Scraper.state["visited"] of the running process
    pc,          \* position of the process in main()/tick()
    exc,         \* the exception tick caught from new_posts, or None
    saved,       \* whether this run has written scraper.json
    feed,        \* entries returned by fetch_new_posts in this run
    posts,       \* the list new_posts builds and tick iterates over
    idx,         \* index in posts of the next post tick sends
    log,         \* delivery attempts of this run, in the order they were made
    startStore,  \* history: visited when the tick started
    recorded,    \* history: visited right after record_posts in this run
    ticks,       \* number of process runs started so far
    prevRun,     \* history: how the previous run ended
    delivered,   \* history: posts delivered and not evicted by the cap since
    doc,         \* SpecMinify: the parsed input document
    out,         \* SpecMinify: what html_minify made of doc
    again,       \* SpecMinify: what html_minify made of its own output
    image,       \* SpecMinify: what find_image returned for doc
    stage,       \* SpecMinify: which calls have been made
    last,        \* SpecApi: the latest Scraper method call and its result
    prev,        \* SpecApi: the call before last
    ops          \* SpecApi: number of calls made

vars ==
    <<file, visited, pc, exc, saved, feed, posts, idx, log, startStore,
      recorded, ticks, prevRun, delivered, last, prev, ops,
      doc, out, again, image, stage>>

tickVars ==
    <<file, pc, exc, saved, feed, posts, idx, log, startStore, recorded,
      ticks, prevRun, delivered>>

apiVars == <<last, prev, ops>>

docVars == <<doc, out, again, image, stage>>

NoRun == [end |-> "none", feed |-> <<>>, new |-> <<>>, log |-> <<>>]

NoCall == [op |-> "none", arg |-> <<>>, pre |-> <<>>, ret |-> <<>>]

\* ------------------------------------------------------------------ SpecApi
\* The Dedup Store operations of Scraper, called directly in any order on a
\* Scraper constructed with a given state (Scraper.__init__, state=...).

\* Entry lists handed to filter_posts / record_posts.  Only the guid is read.
ApiEntry(g) == [guid |-> g, description |-> <<>>]

ApiLists ==
    { <<>>,
      <<ApiEntry(1)>>,
      <<ApiEntry(1), ApiEntry(2)>>,
      <<ApiEntry(2), ApiEntry(2)>>,
      <<ApiEntry(3), ApiEntry(1), ApiEntry(3)>>,
      Distinct(Cap),
      Distinct(ManyIds) }

\* States a Scraper can be constructed with (any list of identifiers).
ApiStores ==
    { <<>>,
      <<1>>,
      <<2, 1, 2>>,
      Filler(Cap - 1),
      <<1>> \o Filler(Cap - 1),
      Filler(Cap - 2) \o <<3>>,
      Filler(Cap + 2) }

InitApi ==
    /\ visited \in ApiStores
    /\ file = <<>>
    /\ pc = "api"
    /\ exc = None
    /\ saved = FALSE
    /\ feed = <<>>
    /\ posts = <<>>
    /\ idx = 0
    /\ log = <<>>
    /\ startStore = <<>>
    /\ recorded = <<>>
    /\ ticks = 0
    /\ prevRun = NoRun
    /\ delivered = {}
    /\ last = NoCall
    /\ prev = NoCall
    /\ ops = 0
    /\ doc = <<>>
    /\ out = <<>>
    /\ again = <<>>
    /\ image = None
    /\ stage = "none"

ApiFilter(entries) ==
    /\ ops < MaxOps
    /\ last' = [op |-> "filter", arg |-> entries, pre |-> visited,
                ret |-> filter_posts(visited, entries)]
    /\ prev' = last
    /\ ops' = ops + 1
    /\ UNCHANGED <<visited, tickVars, docVars>>

ApiRecord(entries) ==
    /\ ops < MaxOps
    /\ visited' = record_posts(visited, entries)
    /\ last' = [op |-> "record", arg |-> entries, pre |-> visited, ret |-> <<>>]
    /\ prev' = last
    /\ ops' = ops + 1
    /\ UNCHANGED <<tickVars, docVars>>

ApiRefuse(entry) ==
    /\ ops < MaxOps
    /\ visited' = refuse(visited, entry)
    /\ last' = [op |-> "refuse", arg |-> <<entry>>, pre |-> visited, ret |-> <<>>]
    /\ prev' = last
    /\ ops' = ops + 1
    /\ UNCHANGED <<tickVars, docVars>>

NextApi ==
    \/ \E entries \in ApiLists : ApiFilter(entries)
    \/ \E entries \in ApiLists : ApiRecord(entries)
    \/ \E g \in 1..3 : ApiRefuse(ApiEntry(g))

SpecApi == InitApi /\ [][NextApi]_vars

\* ------------------------------------------------------------------ Spec
\* Runs of the process: main() loads scraper.json and runs one tick.  The feed
\* and the outcome of every network call are inputs.

\* Descriptions of the feed's entries, as parsed.
UrlPng == <<"/", "x", ".", "p", "n", "g">>

UrlImgur == <<"/", "i", "m", "g", "u", "r">>

Description(g) ==
    CASE g = 1 -> <<Tag("div", None, <<Tag("a", UrlPng, <<Text(<<"p", "i", "c">>)>>)>>)>>
      [] g = 2 -> <<Text(<<"s", "e", "e", " ">>), Tag("a", UrlImgur, <<Text(<<"q">>)>>)>>
      [] g = 3 -> <<Tag("div", None, <<Text(<<"h", "i">>), Tag("br", None, <<>>)>>)>>
      [] g = 4 -> <<Tag("p", None, <<Tag("a", UrlImgur, <<Text(<<"x">>)>>)>>)>>
      [] g = 5 -> <<Tag("ul", None, <<Tag("li", None, <<>>)>>)>>
      [] OTHER -> <<>>

\* An entry as fetch_new_posts builds it (main.py:153-159); title, link and
\* comments are copied into the message and decide nothing.
Entry(g) == [guid |-> g, description |-> Description(g)]

\* Feeds the server may return.
Feeds ==
    { <<>>,
      <<Entry(1)>>,
      <<Entry(2), Entry(1)>>,
      <<Entry(3), Entry(1)>>,
      <<Entry(1), Entry(3), Entry(2)>>,
      <<Entry(1), Entry(1)>>,
      <<Entry(2), Entry(5)>>,
      <<Entry(4), Entry(2)>> }

\* Contents of scraper.json before the first run (any list of identifiers).
InitFiles ==
    { <<>>,
      <<1>>,
      Filler(Cap - 1),
      Filler(Cap),
      <<2>> \o Filler(Cap - 1),
      Filler(Cap + 2) }

\* Exceptions fetch_new_posts raises: the transport failed or the status is
\* not 200 (HTTPFailed), feedparser failed (ParseFeedFailed), an item lacks a
\* field (KeyError).
FetchErrors == {"HTTPFailed", "ParseFeedFailed", "KeyError"}

Init ==
    /\ file \in InitFiles
    /\ visited = <<>>
    /\ pc = "main"
    /\ exc = None
    /\ saved = FALSE
    /\ feed = <<>>
    /\ posts = <<>>
    /\ idx = 0
    /\ log = <<>>
    /\ startStore = <<>>
    /\ recorded = <<>>
    /\ ticks = 0
    /\ prevRun = NoRun
    /\ delivered = {}
    /\ last = NoCall
    /\ prev = NoCall
    /\ ops = 0
    /\ doc = <<>>
    /\ out = <<>>
    /\ again = <<>>
    /\ image = None
    /\ stage = "none"

\* main(): a new process constructs the Scraper, loads scraper.json and
\* enters tick.
Main ==
    /\ pc \in {"main", "done", "returned", "crashed"}
    /\ ticks < MaxTicks
    /\ visited' = file
    /\ startStore' = file
    /\ pc' = "tick"
    /\ exc' = None
    /\ saved' = FALSE
    /\ feed' = <<>>
    /\ posts' = <<>>
    /\ idx' = 0
    /\ log' = <<>>
    /\ recorded' = <<>>
    /\ ticks' = ticks + 1
    /\ prevRun' = [end |-> pc, feed |-> Guids(feed),
                   new |-> Guids(filter_posts(startStore, feed)), log |-> log]
    /\ UNCHANGED <<file, delivered, apiVars, docVars>>

\* Faulty new_posts: entries are recorded before the fetch error surfaces.
FetchFailAfterRecord(e) ==
    /\ pc = "tick"
    /\ \E f \in Feeds : visited' = record_posts(visited, filter_posts(visited, f))
    /\ exc' = e
    /\ pc' = "returned"
    /\ UNCHANGED <<file, saved, feed, posts, idx, log, startStore, recorded,
                   ticks, prevRun, delivered, apiVars, docVars>>

\* new_posts: fetch_new_posts raises e; tick catches it and returns.
FetchFail(e) ==
    /\ pc = "tick"
    /\ exc' = e
    /\ pc' = "returned"
    /\ UNCHANGED <<file, visited, saved, feed, posts, idx, log, startStore,
                   recorded, ticks, prevRun, delivered, apiVars, docVars>>

\* new_posts, main.py:192-197: the feed f is fetched, filtered and recorded.
FetchRecord(f) ==
    /\ pc = "tick"
    /\ feed' = f
    /\ posts' = filter_posts(visited, f)
    /\ visited' = record_posts(visited, posts')
    /\ recorded' = visited'
    /\ pc' = "normalize"
    /\ delivered' = {d \in delivered : Holds(visited', d.guid)}
    /\ UNCHANGED <<file, exc, saved, idx, log, startStore, ticks, prevRun, apiVars, docVars>>

\* The post new_posts makes of an entry (main.py:198-201): the description is
\* the serialisation of the minified tree, and find_image parses it again.
MakePost(entry) ==
    LET desc == Reparse(html_minify(entry.description))
    IN  [guid |-> entry.guid, description |-> desc, image |-> find_image(desc)]

\* new_posts, main.py:198-203, and its return into tick: every description is
\* minified and searched for an image; an exception of html_minify is caught
\* by tick, which returns.
Normalize ==
    /\ pc = "normalize"
    /\ IF \E i \in 1..Len(posts) : html_minify(posts[i].description) = <<IndexError>>
       THEN /\ exc' = "IndexError"
            /\ pc' = "returned"
            /\ posts' = <<>>
            /\ idx' = idx
       ELSE /\ posts' = [i \in 1..Len(posts) |-> MakePost(posts[i])]
            /\ pc' = "deliver"
            /\ idx' = 1
            /\ exc' = exc
    /\ UNCHANGED <<file, visited, saved, feed, log, startStore, recorded, ticks,
                   prevRun, delivered, apiVars, docVars>>

\* Which branch of send_post a post takes (main.py:243).
Shape(post) == IF "image" \in DOMAIN post THEN "image" ELSE "text"

\* send_post: net tells whether the network calls (image download, Telegram
\* request) go through.  requests.get(None) raises, which send_post catches.
send_post(post, net) ==
    IF Shape(post) = "image"
    THEN IF post.image = None THEN FALSE ELSE net
    ELSE net

\* Faulty tick: the loop stops at the first failed delivery.
SendPostStopOnFailure(net) ==
    /\ pc = "deliver"
    /\ idx <= Len(posts)
    /\ LET post == posts[idx]
           result == send_post(post, net)
       IN  /\ log' = Append(log, [guid |-> post.guid, shape |-> Shape(post),
                                  ok |-> result])
           /\ visited' = IF result THEN visited ELSE refuse(visited, post)
           /\ idx' = IF result THEN idx + 1 ELSE Len(posts) + 1
    /\ delivered' =
           IF send_post(posts[idx], net) /\ Unique(Guids(feed))
                  /\ Holds(visited, posts[idx].guid)
           THEN delivered \cup {[guid |-> posts[idx].guid, run |-> ticks]}
           ELSE delivered
    /\ UNCHANGED <<file, pc, exc, saved, feed, posts, startStore, recorded,
                   ticks, prevRun, apiVars, docVars>>

\* tick, main.py:296-300: one iteration of the delivery loop.
SendPost(net) ==
    /\ pc = "deliver"
    /\ idx <= Len(posts)
    /\ LET post == posts[idx]
           result == send_post(post, net)
       IN  /\ log' = Append(log, [guid |-> post.guid, shape |-> Shape(post),
                                  ok |-> result])
           /\ visited' = IF result THEN visited ELSE refuse(visited, post)
    /\ idx' = idx + 1
    /\ delivered' =
           IF send_post(posts[idx], net) /\ Unique(Guids(feed))
                  /\ Holds(visited, posts[idx].guid)
           THEN delivered \cup {[guid |-> posts[idx].guid, run |-> ticks]}
           ELSE delivered
    /\ UNCHANGED <<file, pc, exc, saved, feed, posts, startStore, recorded,
                   ticks, prevRun, apiVars, docVars>>

\* Faulty tick: the file is opened but the store is not written.
SaveNothing ==
    /\ pc = "deliver"
    /\ idx > Len(posts)
    /\ saved' = TRUE
    /\ pc' = "done"
    /\ UNCHANGED <<file, visited, exc, feed, posts, idx, log, startStore,
                   recorded, ticks, prevRun, delivered, apiVars, docVars>>

\* tick, main.py:301-302: after the loop the state is written.
Save ==
    /\ pc = "deliver"
    /\ idx > Len(posts)
    /\ file' = visited
    /\ saved' = TRUE
    /\ pc' = "done"
    /\ UNCHANGED <<visited, exc, feed, posts, idx, log, startStore, recorded,
                   ticks, prevRun, delivered, apiVars, docVars>>

\* The process is killed while the tick runs; nothing is written.
Crash ==
    /\ pc \in {"tick", "normalize", "deliver"}
    /\ pc' = "crashed"
    /\ UNCHANGED <<file, visited, exc, saved, feed, posts, idx, log, startStore,
                   recorded, ticks, prevRun, delivered, apiVars, docVars>>

Next ==
    \/ Main
    \/ \E e \in FetchErrors : FetchFail(e)
    \/ \E f \in Feeds : FetchRecord(f)
    \/ Normalize
    \/ \E net \in BOOLEAN : SendPost(net)
    \/ Save
    \/ Crash

Spec == Init /\ [][Next]_vars

\* ------------------------------------------------------------------ SpecMinify
\* html_minify and find_image applied to a document; html_minify applied once
\* more to the string it returned.  The document is the tree BeautifulSoup
\* builds from the pre-minified input.

UrlPngNewline == UrlPng \o <<"\n">>

UrlUpper == <<"/", "x", ".", "P", "N", "G">>

UrlPage == <<"/", "p">>

\* Nodes without children.
Leaves ==
    << Text(<<"x">>), Text(<<" ", "y">>), Tag("a", UrlPng, <<>>),
       Tag("div", None, <<>>), Tag("p", None, <<>>), Tag("li", None, <<>>),
       Tag("br", None, <<>>), Tag("b", None, <<>>) >>

\* The parser never leaves two strings side by side.
Parsed(kids) ==
    \A i \in 1..(Len(kids) - 1) : ~(IsText(kids[i]) /\ IsText(kids[i + 1]))

\* The children a choice of leaves stands for.
Kids(f) == [i \in DOMAIN f |-> Leaves[f[i]]]

KidChoices ==
    {f \in UNION {[1..n -> 1..Len(Leaves)] : n \in 0..MaxKids} : Parsed(Kids(f))}

\* Tags whose children are leaves.
Wrappers == {"div", "p", "li", "b", "ul", "a"}

Level2(w, f) == Tag(w, IF w = "a" THEN UrlPng ELSE None, Kids(f))

\* Deeper documents.
DeepDocs ==
    << <<Tag("div", None, <<Tag("p", None, <<Tag("b", None, <<Text(<<"x">>)>>)>>),
                            Tag("i", None, <<Tag("em", None, <<Text(<<"y">>)>>)>>)>>)>>,
       <<Tag("ul", None, <<Tag("li", None, <<Tag("b", None, <<Text(<<"x">>)>>)>>),
                           Tag("li", None, <<Text(<<"y">>)>>)>>)>>,
       <<Tag("div", None, <<Tag("div", None, <<Tag("strong", None, <<Tag("br", None, <<>>)>>),
                                               Text(<<"x">>)>>)>>)>>,
       <<Tag("a", UrlImgur, <<Tag("span", None, <<Tag("li", None, <<>>)>>)>>)>> >>

Hrefs == <<None, UrlPng, UrlImgur, UrlPngNewline, UrlUpper, UrlPage>>

\* Documents of anchors only.
Anchors(f) == [i \in DOMAIN f |-> Tag("a", Hrefs[f[i]], <<Text(<<"x">>)>>)]

AnchorChoices == UNION {[1..n -> 1..Len(Hrefs)] : n \in 1..MaxKids}

InitMinify ==
    /\ \/ \E i \in 1..Len(Leaves) : doc = <<Leaves[i]>>
       \/ \E w \in Wrappers, f \in KidChoices : doc = <<Level2(w, f)>>
       \/ \E g \in 1..5 : doc = Description(g)
       \/ \E i \in 1..Len(DeepDocs) : doc = DeepDocs[i]
       \/ \E f \in AnchorChoices : doc = Anchors(f)
    /\ out = <<>>
    /\ again = <<>>
    /\ image = None
    /\ stage = "input"
    /\ file = <<>>
    /\ visited = <<>>
    /\ pc = "minify"
    /\ exc = None
    /\ saved = FALSE
    /\ feed = <<>>
    /\ posts = <<>>
    /\ idx = 0
    /\ log = <<>>
    /\ startStore = <<>>
    /\ recorded = <<>>
    /\ ticks = 0
    /\ prevRun = NoRun
    /\ delivered = {}
    /\ last = NoCall
    /\ prev = NoCall
    /\ ops = 0

\* html_minify(html_doc)
Minify ==
    /\ stage = "input"
    /\ out' = html_minify(doc)
    /\ stage' = "minified"
    /\ UNCHANGED <<doc, again, image, visited, tickVars, apiVars>>

\* html_minify(html_minify(html_doc)): the second call parses the string the
\* first one returned.
MinifyAgain ==
    /\ stage = "minified"
    /\ out # <<IndexError>>
    /\ again' = html_minify(Reparse(out))
    /\ stage' = "again"
    /\ UNCHANGED <<doc, out, image, visited, tickVars, apiVars>>

\* Scraper.find_image(post) with post["description"] = doc
FindImage ==
    /\ stage = "input"
    /\ image' = find_image(doc)
    /\ stage' = "image"
    /\ UNCHANGED <<doc, out, again, visited, tickVars, apiVars>>

NextMinify ==
    \/ Minify
    \/ MinifyAgain
    \/ FindImage

SpecMinify == InitMinify /\ [][NextMinify]_vars

\* ------------------------------------------------------------------ claims

\* C1: record(entries) leaves the store equal to the last 500 elements of
\* (old store followed by the entries' identifiers, in the given order).
C1_RecordKeepsLast500 ==
    last.op = "record" =>
        LET all == last.pre \o Guids(last.arg)
            n   == Len(all)
        IN  /\ Len(visited) = Min(n, Cap)
            /\ \A k \in 1..Len(visited) : visited[k] = all[n - Len(visited) + k]

\* Witness of C1: 600 distinct identifiers were recorded into an empty store
\* and exactly the 500 appended last are left, in append order.
C1_Witness ==
    /\ last.op = "record"
    /\ last.pre = <<>>
    /\ last.arg = Distinct(ManyIds)
    /\ visited = [k \in 1..Cap |-> last.arg[ManyIds - Cap + k].guid]

\* C2 as stated: record(entries) followed by filter(the same entries)
\* returns the empty list, for any store and any list of entries.
C2_RecordThenFilterEmpty ==
    (last.op = "filter" /\ prev.op = "record" /\ prev.arg = last.arg)
        => last.ret = <<>>

\* C2 amended: the same for lists of at most 500 entries.
C2_RecordThenFilterEmptyUpToCap ==
    (last.op = "filter" /\ prev.op = "record" /\ prev.arg = last.arg
        /\ Len(last.arg) <= Cap)
        => last.ret = <<>>

\* Witness of C2: a non-empty list was recorded into a store that evicted old
\* identifiers to make room, then filtered to nothing.
C2_Witness ==
    /\ last.op = "filter" /\ prev.op = "record" /\ prev.arg = last.arg
    /\ Len(last.arg) = Cap
    /\ Len(prev.pre) > 0
    /\ last.ret = <<>>

\* C3 as stated: after refuse(entry) the entry's identifier is not a member of
\* the store (so filter([entry]) returns [entry]), also when the store held the
\* identifier more than once.
C3_RefuseRemovesMembership ==
    last.op = "refuse" => last.arg[1].guid \notin Range(visited)

\* Number of failed delivery attempts of identifier g in this run.
FailedCount(g) == Cardinality({i \in 1..Len(log) : log[i].guid = g /\ ~log[i].ok})

\* Identifiers with a failed delivery attempt in this run.
FailedGuids == {log[i].guid : i \in {j \in 1..Len(log) : ~log[j].ok}}

\* C4: in a tick that ran its delivery loop to the end, every post of the
\* batch was attempted whatever happened to the posts before it; the store
\* differs from the recorded one only in the identifiers of failed posts (one
\* occurrence is gone per failed delivery, everything else is in place and in
\* order), and the identifier of every delivered post is still in it.
C4_FailureIsolation ==
    pc = "done" =>
        /\ Len(log) = Len(posts)
        /\ \A i \in 1..Len(posts) : log[i].guid = posts[i].guid
        /\ SelectSeq(visited, LAMBDA g : g \notin FailedGuids)
               = SelectSeq(recorded, LAMBDA g : g \notin FailedGuids)
        /\ \A g \in FailedGuids :
               Count(visited, g) = Max(0, Count(recorded, g) - FailedCount(g))
        /\ \A i \in 1..Len(log) :
               (log[i].ok /\ Holds(recorded, log[i].guid))
                   => Holds(visited, log[i].guid)

\* Witness of C4: post A failed, the later post B of the same batch was
\* delivered, and at the end only A's identifier is gone from the store.
C4_Witness ==
    /\ pc = "done"
    /\ \E i, j \in 1..Len(log) :
           /\ i < j
           /\ ~log[i].ok /\ log[j].ok
           /\ Holds(recorded, log[i].guid) /\ ~Holds(visited, log[i].guid)
           /\ Holds(visited, log[j].guid)

\* C5: when fetch_new_posts fails, the tick has no posts, has attempted no
\* delivery and the store in memory is the one the tick started with.
C5_FetchFailureChangesNothing ==
    (pc = "returned" /\ exc \in FetchErrors) =>
        /\ posts = <<>>
        /\ log = <<>>
        /\ visited = startStore

\* Witness of C5: a tick started with a non-empty store and the fetch failed
\* with a non-200 status.
C5_Witness ==
    /\ pc = "returned" /\ exc = "HTTPFailed"
    /\ Len(startStore) >= Cap
    /\ visited = startStore

C7_NoImageUsesTextShape ==
    \A i \in 1..Len(log) : posts[i].image = None => log[i].shape = "text"

\* C8 as stated: a post whose delivery failed is not in the persisted store
\* after that tick, and the next tick whose feed still holds it attempts it
\* again (identifiers unique within each feed).
C8_FailedPostIsRetried ==
    /\ (pc = "done" /\ Unique(Guids(feed))) =>
           \A i \in 1..Len(log) : ~log[i].ok => ~Holds(file, log[i].guid)
    /\ (pc \in {"done", "returned"} /\ prevRun.end = "done"
            /\ Unique(prevRun.feed) /\ Unique(Guids(feed))) =>
           \A i \in 1..Len(prevRun.log) :
               (~prevRun.log[i].ok /\ prevRun.log[i].guid \in Range(Guids(feed)))
                   => \E k \in 1..Len(log) : log[k].guid = prevRun.log[i].guid

\* C9 as stated: when a tick has returned, the delivery attempts it made are
\* those of the fetched entries that were not in the store, in feed order,
\* each once.
C9_AttemptsInFeedOrderOnce ==
    pc \in {"done", "returned"} =>
        [i \in 1..Len(log) |-> log[i].guid] = Guids(filter_posts(startStore, feed))

\* C10 as stated: after a run that crashed once record had run, the next run
\* does not return the entries recorded in the crashed run as new.
C10_NoRedeliveryAfterCrash ==
    (prevRun.end = "crashed" /\ pc \in {"normalize", "deliver", "done"}) =>
        \A g \in Range(prevRun.new) : g \notin Range(Guids(posts))

\* C15: whenever a run has written the state file, the file holds at most 500
\* identifiers, whatever the length of the list that was loaded.
C15_WrittenFileWithinCap == saved => Len(file) <= Cap

\* Witness of C15: a list of more than 500 identifiers was loaded, the tick
\* ran to its end and the file it wrote holds exactly 500.
C15_Witness ==
    /\ saved
    /\ Len(startStore) > Cap
    /\ Len(file) = Cap

\* C16 as stated: the identifier of a delivered post stays in the store of
\* every later tick until the cap evicts it, and no later tick attempts the
\* post again (identifiers unique within each feed).
C16_DeliveredStaysUntilEvicted ==
    \A d \in delivered :
        /\ pc \in {"tick", "normalize", "deliver", "done", "returned"}
               => Holds(visited, d.guid)
        /\ d.run < ticks => \A k \in 1..Len(log) : log[k].guid # d.guid

\* C17: refuse(entry) deletes the earliest occurrence of the entry's
\* identifier and nothing else, keeping the order of the rest; the store is
\* unchanged when the identifier is not in it.
C17_RefuseRemovesEarliestOnly ==
    last.op = "refuse" =>
        LET g == last.arg[1].guid
            at == {i \in 1..Len(last.pre) : last.pre[i] = g}
        IN  IF at = {} THEN visited = last.pre
            ELSE LET k == CHOOSE i \in at : \A j \in at : i <= j
                 IN  /\ Len(visited) = Len(last.pre) - 1
                     /\ \A i \in 1..(k - 1) : visited[i] = last.pre[i]
                     /\ \A i \in k..Len(visited) : visited[i] = last.pre[i + 1]

\* Witness of C17: the store held the identifier twice and refuse left the
\* later occurrence in place.
C17_Witness ==
    /\ last.op = "refuse"
    /\ Count(last.pre, last.arg[1].guid) = 2
    /\ Count(visited, last.arg[1].guid) = 1
    /\ Len(visited) = Len(last.pre) - 1

\* The names of the tags of a document, at any depth.
RECURSIVE TagNamesIn(_)
TagNamesIn(n) ==
    IF IsText(n) THEN {}
    ELSE {n.name} \cup UNION {TagNamesIn(n.kids[i]) : i \in 1..Len(n.kids)}

TagNames(d) == UNION {TagNamesIn(d[i]) : i \in 1..Len(d)}

\* The vocabulary tags of a sequence of nodes in document order, at any depth,
\* leaving out what lies inside a tag whose name is in stop.
RECURSIVE VocabularyTags(_, _)
VocabularyTags(nodes, stop) ==
    IF Len(nodes) = 0 THEN <<>>
    ELSE LET n == Head(nodes)
             own == IF IsText(n) \/ n.name \in stop THEN <<>>
                    ELSE (IF n.name \in Vocabulary THEN <<n>> ELSE <<>>)
                             \o VocabularyTags(n.kids, stop)
         IN  own \o VocabularyTags(Tail(nodes), stop)

SameHref(a, b) == IF a = None THEN b = None ELSE (b # None /\ a = b)

\* Same tag name, same attributes, same text.
SameTag(t, u) ==
    /\ t.name = u.name
    /\ SameHref(t.href, u.href)
    /\ get_text(t) = get_text(u)

\* The call has returned a string.
Returned == stage \in {"minified", "again"} /\ out # <<IndexError>>

\* C18 as stated: html_minify returns a string for every input without
\* raising, an li without children included.
C18_MinifyNeverRaises ==
    stage \in {"minified", "again"} => out # <<IndexError>>

\* C11 as stated: html_minify applied to its own output returns that output.
C11_MinifyIdempotent ==
    stage = "again" => Reparse(again) = Reparse(out)

\* C12 as stated: what html_minify returns holds no tag other than a, b,
\* strong, i and em.
C12_OutputOnlyVocabulary ==
    Returned => TagNames(out) \subseteq Vocabulary

\* C13 as stated: every a, b, strong, i or em tag of the input, at any depth
\* and under any ancestor, is in the output with its name, attributes and text.
C13_VocabularyTagsPreserved ==
    Returned =>
        LET ins == VocabularyTags(doc, {})
            outs == VocabularyTags(out, {})
        IN  \A i \in 1..Len(ins) : \E j \in 1..Len(outs) : SameTag(ins[i], outs[j])

\* C13 amended: when html_minify returns, the vocabulary tags of its output
\* are, in order, the vocabulary tags of the input that are not inside a p or
\* an li, each with its name and attributes; a tag with no br, p or li below
\* it keeps its text as well.
C13_VocabularyTagsOutsideBlocks ==
    Returned =>
        LET ins == VocabularyTags(doc, {"p", "li"})
            outs == VocabularyTags(out, {})
        IN  /\ Len(outs) = Len(ins)
            /\ \A k \in 1..Len(ins) :
                   /\ outs[k].name = ins[k].name
                   /\ SameHref(outs[k].href, ins[k].href)
                   /\ TagNamesIn(ins[k]) \cap {"br", "p", "li"} = {}
                          => get_text(outs[k]) = get_text(ins[k])

\* A nested vocabulary tag under a wrapper that the call does not remove, and
\* another one inside a paragraph.
C13_Witness ==
    /\ Returned
    /\ Len(VocabularyTags(doc, {"p", "li"})) = 2
    /\ Len(VocabularyTags(doc, {})) = 3
    /\ Len(VocabularyTags(out, {})) = 2
    /\ "div" \in TagNames(out)

\* The link the statement of C14 names: the href of the first anchor in
\* document order whose href ends in an image extension or contains "imgur".
FirstImageLink(d) ==
    LET anchors == find_all(d, "a")
        hits == {i \in 1..Len(anchors) :
                    /\ anchors[i].href # None
                    /\ \/ \E ext \in ImageExtensions : EndsWith(anchors[i].href, ext)
                       \/ Contains(anchors[i].href, <<"i", "m", "g", "u", "r">>)}
    IN  IF hits = {} THEN None
        ELSE anchors[CHOOSE i \in hits : \A j \in hits : i <= j].href

\* C14 as stated: find_image returns the href of the first anchor in document
\* order whose href ends in .jpg, .jpeg, .png, .gif or .webp or contains
\* "imgur", skips anchors without href, and returns None when there is none.
C14_FindImageFirstMatch ==
    stage = "image" => SameHref(image, FirstImageLink(doc))

====
